---- MODULE Spec2Model ----
(***************************************************************************)
(* State-machine model of EvolutionaryEngine (mcp_core.ts): the single     *)
(* evolution session with its five operations startEvolution, addSolution, *)
(* scoreSolution, evolveGeneration and getEvolutionStatus.                 *)
(*                                                                         *)
(* Numbers.  A JavaScript number is modelled as an exact fraction          *)
(* [n |-> numerator, d |-> denominator] in lowest terms with d >= 0.       *)
(* d = 0 encodes the non-finite results of a division by zero:             *)
(* [n |-> 1, d |-> 0] is Infinity, [n |-> -1, d |-> 0] is -Infinity and    *)
(* [n |-> 0, d |-> 0] is NaN.  Scores and weights are integers.  Solution  *)
(* ids are the integers handed out by generateId, check ids are the        *)
(* indices i of check_i.                                                   *)
(***************************************************************************)
EXTENDS Integers, Sequences, FiniteSets, TLC

\* ---------------------------------------------------------------- bounds
\* number of solution ids generateId can hand out in one run
MaxSolutions == 2

\* ------------------------------------------------------- program constants
DefaultMaxGenerations == 5
DefaultPopulationSize == 3
DefaultConvergenceThreshold == [n |-> 19, d |-> 20]
DefaultWeight == 1

\* ------------------------------------------------------------- JS values
\* An optional value is a sequence: <<>> is undefined, <<v>> is the value v.
Undefined == <<>>
Some(v) == <<v>>
\* bestSolution: Solution | null
NULL == 0

Abs(x) == IF x < 0 THEN -x ELSE x

RECURSIVE Gcd(_, _)
Gcd(a, b) == IF b = 0 THEN a ELSE Gcd(b, a % b)

Sign(x) == IF x > 0 THEN 1 ELSE IF x < 0 THEN -1 ELSE 0

\* the number n / d as a canonical fraction (JS: n / d, also for d = 0)
Div(n, d) ==
  IF d = 0 THEN [n |-> Sign(n), d |-> 0]
  ELSE LET g == Gcd(Abs(n), Abs(d))
       IN  [n |-> (Sign(d) * n) \div g, d |-> Abs(d) \div g]

Num(k) == [n |-> k, d |-> 1]
IsNaN(a) == a.n = 0 /\ a.d = 0

\* JS a > b
Gt(a, b) ==
  IF IsNaN(a) \/ IsNaN(b) THEN FALSE
  ELSE IF a.d = 0 /\ b.d = 0 THEN a.n > b.n
  ELSE a.n * b.d > b.n * a.d

\* JS a >= b
Ge(a, b) ==
  IF IsNaN(a) \/ IsNaN(b) THEN FALSE
  ELSE IF a.d = 0 /\ b.d = 0 THEN a.n >= b.n
  ELSE a.n * b.d >= b.n * a.d

\* JS a + b
Add(a, b) ==
  IF IsNaN(a) \/ IsNaN(b) THEN [n |-> 0, d |-> 0]
  ELSE IF a.d = 0 /\ b.d = 0 THEN (IF a.n = b.n THEN a ELSE [n |-> 0, d |-> 0])
  ELSE IF a.d = 0 THEN a
  ELSE IF b.d = 0 THEN b
  ELSE Div(a.n * b.d + b.n * a.d, a.d * b.d)

\* JS a / k for an integer k > 0
DivInt(a, k) == IF a.d = 0 THEN a ELSE Div(a.n, a.d * k)

\* JS Math.max(a, b): NaN if either is NaN
Max2(a, b) ==
  IF IsNaN(a) \/ IsNaN(b) THEN [n |-> 0, d |-> 0]
  ELSE IF Gt(b, a) THEN b ELSE a

\* ---------------------------------------------------------------- inputs
SolutionIds == 1..MaxSolutions

\* a solutionId that names a property every object inherits from
\* Object.prototype ('constructor', 'toString', '__proto__', ...): the lookup
\* solutions[solutionId] yields that inherited value, which is truthy and has
\* no scores
PrototypeKey == 0 - 1

\* the scores 0.0 and 1.0
Scores == {0, 1}

\* one element of the consistencyChecks array: a plain string, or an object
\* with an optional description and an optional weight
PlainCheck == [kind |-> "string", description |-> Some("d"), weight |-> Undefined]

\* an object that has no description
BareCheck == [kind |-> "object", description |-> Undefined, weight |-> Undefined]

\* the checks that have a description and resolve to the default weight
DefaultWeightChecks ==
  { PlainCheck,
    [kind |-> "object", description |-> Some("d"), weight |-> Undefined],
    [kind |-> "object", description |-> Some("d"), weight |-> Some(0)] }

\* a plain-string check followed by a check of weight 2 with a description
\* of its own
WeightedChecks ==
  << PlainCheck, [kind |-> "object", description |-> Some("e"), weight |-> Some(2)] >>

\* the check ids of the longest check list
CheckIds == 1..Len(WeightedChecks)

\* the consistencyChecks argument when the optional settings are omitted:
\* missing, empty, or a single check of default weight
CheckListInputs ==
  {Undefined, Some(<<>>)} \cup {Some(<<check>>) : check \in DefaultWeightChecks}

StartInput(ps, checks, pop, maxg, thr) ==
  [problemStatement |-> ps, consistencyChecks |-> checks, populationSize |-> pop,
   maxGenerations |-> maxg, convergenceThreshold |-> thr]

\* the arguments of start_evolution: the check lists above with the optional
\* settings omitted; a single check with convergenceThreshold 0; a single
\* check, with or without description, with maxGenerations 1; the weighted
\* list with populationSize 1, maxGenerations 2 and convergenceThreshold
\* 0.5; and an empty or missing problem statement
StartInputs ==
  {StartInput(Some("p"), checks, Undefined, Undefined, Undefined) :
     checks \in CheckListInputs}
  \cup {StartInput(Some("p"), Some(<<PlainCheck>>), Undefined, Undefined, Some(Num(0)))}
  \cup {StartInput(Some("p"), Some(<<check>>), Undefined, Some(1), Undefined) :
          check \in {PlainCheck, BareCheck}}
  \cup {StartInput(Some("p"), Some(WeightedChecks), Some(1), Some(2), Some(Div(1, 2)))}
  \cup {StartInput(ps, Some(<<PlainCheck>>), Undefined, Undefined, Undefined) :
          ps \in {Some(""), Undefined}}

ContentInputs == {Some("c"), Some(""), Undefined}

ScoreInput(solutionId, checkId, score) ==
  [solutionId |-> solutionId, checkId |-> checkId, score |-> score]

\* the arguments of score_solution: every solution id, check id and score in
\* range; a score below 0 and one above 1; a check id no session has; a
\* solution id that is a key of Object.prototype; and one call for each
\* missing field
ScoreInputs ==
  {ScoreInput(Some(id), Some(c), Some(v)) :
     id \in SolutionIds, c \in CheckIds, v \in Scores}
  \cup {ScoreInput(Some(1), Some(1), Some(0 - 1)),
        ScoreInput(Some(1), Some(1), Some(2)),
        ScoreInput(Some(1), Some(Len(WeightedChecks) + 1), Some(0)),
        ScoreInput(Some(PrototypeKey), Some(1), Some(0)),
        ScoreInput(Undefined, Some(1), Some(0)),
        ScoreInput(Some(1), Undefined, Some(0)),
        ScoreInput(Some(1), Some(1), Undefined)}

\* ----------------------------------------------------------------- state
VARIABLES
  started,              \* evolutionState !== null
  problemStatement,
  consistencyChecks,    \* sequence of [id, description, weight]
  currentGeneration,
  maxGenerations,
  populationSize,
  convergenceThreshold,
  solutions,            \* solution id -> the Solution object
  generationHistory,    \* generation -> sequence of solution ids
  bestSolution,         \* NULL or the id of the Solution object referred to
  isComplete,
  nextId,               \* number of ids generateId has handed out
  call,                 \* the operation last invoked, with its arguments
  result,               \* the payload it returned
  handlers              \* client -> the HTTP request it has in flight

state == <<started, problemStatement, consistencyChecks, currentGeneration,
           maxGenerations, populationSize, convergenceThreshold, solutions,
           generationHistory, bestSolution, isComplete>>

vars == <<started, problemStatement, consistencyChecks, currentGeneration,
          maxGenerations, populationSize, convergenceThreshold, solutions,
          generationHistory, bestSolution, isComplete, nextId, call, result,
          handlers>>

EmptyFcn == [x \in {} |-> 0]

\* the clients that send requests to the one server process
Clients == {"a", "b"}

\* a client without a request in flight, holding the last response it got
IdleHandler(response) ==
  [pc |-> "idle", request |-> Undefined, toolResult |-> Undefined,
   response |-> response]

\* no error is thrown: the try block runs to its return
NoError == ""

\* the message thrown when evolutionState is null
NotStartedMessage == "Evolution not started. Call start_evolution first."

\* variant: the error payload without the failure flag
UnflaggedError(msg) == [status |-> "failed", isError |-> FALSE, error |-> msg]

\* the payload every catch block returns
ErrorResult(msg) == [status |-> "failed", isError |-> TRUE, error |-> msg]

Init ==
  /\ started = FALSE
  /\ problemStatement = Undefined
  /\ consistencyChecks = <<>>
  /\ currentGeneration = 0
  /\ maxGenerations = 0
  /\ populationSize = 0
  /\ convergenceThreshold = Num(0)
  /\ solutions = EmptyFcn
  /\ generationHistory = EmptyFcn
  /\ bestSolution = NULL
  /\ isComplete = FALSE
  /\ nextId = 0
  /\ call = [op |-> "none"]
  /\ result = [status |-> "none"]
  /\ handlers = [c \in Clients |-> IdleHandler(Undefined)]

\* ------------------------------------------------------- startEvolution
\* variant: the solutions of the previous session are carried over
PreviousSolutions == solutions

\* solutions: {}
EmptySolutions == EmptyFcn

\* x || dflt for an optional integer argument (undefined and 0 are falsy)
OrDefault(x, dflt) == IF x # Undefined /\ x[1] # 0 THEN x[1] ELSE dflt

\* x || dflt for an optional fractional argument
OrDefaultNum(x, dflt) == IF x # Undefined /\ x[1].n # 0 THEN x[1] ELSE dflt

\* variant: the best solution of the previous session is kept
PreviousBestSolution == bestSolution

\* bestSolution: null in the state literal of a new session
NoBestSolution == NULL

\* variant: every check gets the id check_1
ResolveCheckUnnumbered(check, index) ==
  [id |-> 1,
   description |-> check.description,
   weight |-> IF check.kind = "object" THEN OrDefault(check.weight, DefaultWeight)
              ELSE DefaultWeight]

\* the element of consistencyChecks.map for the input element at index
ResolveCheck(check, index) ==
  [id |-> index,
   description |-> check.description,
   weight |-> IF check.kind = "object" THEN OrDefault(check.weight, DefaultWeight)
              ELSE DefaultWeight]

StartEvolution(data) ==
  /\ call' = [op |-> "start_evolution"]
  /\ IF data.problemStatement = Undefined \/ data.problemStatement = Some("")
     THEN /\ result' = ErrorResult("problemStatement is required and must be a string")
          /\ UNCHANGED <<state, nextId>>
     ELSE IF data.consistencyChecks = Undefined
     THEN /\ result' = ErrorResult("consistencyChecks is required and must be an array")
          /\ UNCHANGED <<state, nextId>>
     ELSE /\ started' = TRUE
          /\ problemStatement' = data.problemStatement
          /\ consistencyChecks' = [i \in 1..Len(data.consistencyChecks[1]) |->
                                     ResolveCheck(data.consistencyChecks[1][i], i)]
          /\ currentGeneration' = 0
          /\ maxGenerations' = OrDefault(data.maxGenerations, DefaultMaxGenerations)
          /\ populationSize' = OrDefault(data.populationSize, DefaultPopulationSize)
          /\ convergenceThreshold' = OrDefaultNum(data.convergenceThreshold,
                                                   DefaultConvergenceThreshold)
          /\ solutions' = EmptySolutions
          /\ generationHistory' = EmptyFcn
          /\ bestSolution' = NoBestSolution
          /\ isComplete' = FALSE
          /\ UNCHANGED nextId
          /\ result' = [status |-> "started",
                        problemStatement |-> problemStatement',
                        consistencyChecks |-> consistencyChecks',
                        currentGeneration |-> currentGeneration',
                        maxGenerations |-> maxGenerations',
                        populationSize |-> populationSize']

\* ----------------------------------------------------------- addSolution
\* the parentSolutions argument of the next add_solution call: the caller
\* names the id issued last, whichever session issued it, and omits the
\* argument as long as no id has been issued
ParentInputs == IF nextId = 0 THEN {Undefined} ELSE {Some(<<nextId>>)}

\* variant: a completed session takes no more solutions
AddErrorWhenComplete(content) ==
  IF ~started THEN NotStartedMessage
  ELSE IF isComplete THEN "Evolution is complete"
  ELSE IF content = Undefined \/ content = Some("")
  THEN "Solution content is required and must be a string"
  ELSE NoError

\* the message of the error addSolution throws for content in the current
\* state, NoError if it throws none
AddError(content) ==
  IF ~started THEN NotStartedMessage
  ELSE IF content = Undefined \/ content = Some("")
  THEN "Solution content is required and must be a string"
  ELSE NoError

\* Array.isArray(data.parentSolutions) ? data.parentSolutions : []
ResolveParents(parentSolutions) ==
  IF parentSolutions = Undefined THEN <<>> ELSE parentSolutions[1]

\* variant: every solution is stamped with generation 0
NewSolutionOfFirstGeneration(id, content, parentSolutions) ==
  [id |-> id, content |-> content[1], generation |-> 0, scores |-> EmptyFcn,
   compositeScore |-> Num(0), parentSolutions |-> ResolveParents(parentSolutions)]

\* the Solution object addSolution creates (timestamp not modelled)
NewSolution(id, content, parentSolutions) ==
  [id |-> id, content |-> content[1], generation |-> currentGeneration,
   scores |-> EmptyFcn, compositeScore |-> Num(0),
   parentSolutions |-> ResolveParents(parentSolutions)]

\* variant: the id is pushed twice
PushTwice(bucket, id) == Append(Append(bucket, id), id)

\* generationHistory[currentGeneration].push(solution.id)
PushId(bucket, id) == Append(bucket, id)

AddSolution(content, parentSolutions) ==
  /\ call' = [op |-> "add_solution"]
  /\ IF AddError(content) # NoError
     THEN /\ result' = ErrorResult(AddError(content))
          /\ UNCHANGED <<state, nextId>>
     ELSE LET id == nextId + 1
              g == currentGeneration
              bucket == IF g \in DOMAIN generationHistory THEN generationHistory[g] ELSE <<>>
          IN  /\ nextId < MaxSolutions
              /\ nextId' = id
              /\ solutions' = [x \in DOMAIN solutions \cup {id} |->
                                 IF x = id THEN NewSolution(id, content, parentSolutions)
                                 ELSE solutions[x]]
              /\ generationHistory' = [h \in DOMAIN generationHistory \cup {g} |->
                                         IF h = g THEN PushId(bucket, id)
                                         ELSE generationHistory[h]]
              /\ result' = [status |-> "added", solutionId |-> id,
                            generation |-> solutions'[id].generation,
                            currentPopulationSize |-> Len(generationHistory'[g]),
                            targetPopulationSize |-> populationSize]
              /\ UNCHANGED <<started, problemStatement, consistencyChecks,
                             currentGeneration, maxGenerations, populationSize,
                             convergenceThreshold, bestSolution, isComplete>>

\* --------------------------------------------------------- scoreSolution
\* consistencyChecks.reduce((sum, check) => sum + (scores[check.id] || 0) * check.weight, 0)
RECURSIVE TotalWeightedScore(_, _, _)
TotalWeightedScore(checks, scores, i) ==
  IF i = 0 THEN 0
  ELSE TotalWeightedScore(checks, scores, i - 1)
       + (IF checks[i].id \in DOMAIN scores THEN scores[checks[i].id] ELSE 0)
         * checks[i].weight

\* variant: the divisor is the number of checks
CheckCount(checks, i) == i

\* consistencyChecks.reduce((sum, check) => sum + check.weight, 0)
RECURSIVE TotalWeight(_, _)
TotalWeight(checks, i) ==
  IF i = 0 THEN 0 ELSE TotalWeight(checks, i - 1) + checks[i].weight

\* the sum of the weights of the checks that have a score
RECURSIVE ScoredWeight(_, _, _)
ScoredWeight(checks, scores, i) ==
  IF i = 0 THEN 0
  ELSE ScoredWeight(checks, scores, i - 1)
       + (IF checks[i].id \in DOMAIN scores THEN checks[i].weight ELSE 0)

\* variant: the mean over the scored checks only
CompositeScoreOfScored(checks, scores) ==
  Div(TotalWeightedScore(checks, scores, Len(checks)),
      ScoredWeight(checks, scores, Len(checks)))

CompositeScore(checks, scores) ==
  Div(TotalWeightedScore(checks, scores, Len(checks)),
      TotalWeight(checks, Len(checks)))

\* variant: a tie replaces the best solution
NotWorseThanBest(newScore, bestScore) == Ge(newScore, bestScore)

\* solution.compositeScore > bestSolution.compositeScore
BetterThanBest(newScore, bestScore) == Gt(newScore, bestScore)

\* variant: the snapshot carries the composite score of a new solution
UnscoredSnapshot(sols, best) ==
  IF best = NULL THEN Undefined
  ELSE Some([sols[best] EXCEPT !.compositeScore = Num(0)])

\* the snapshot JSON.stringify takes of the object bestSolution refers to
BestSnapshot(sols, best) == IF best = NULL THEN Undefined ELSE Some(sols[best])

\* the message of the score validation
RangeMessage == "score is required and must be a number between 0 and 1"

\* variant: the score 0 is rejected
ScoreNotPositive(score) == score <= 0 \/ score > 1

\* data.score < 0 || data.score > 1
ScoreOutOfRange(score) == score < 0 \/ score > 1

\* this.evolutionState.solutions[data.solutionId] is truthy
SolutionFound(solutionId) == solutionId \in DOMAIN solutions \/ solutionId = PrototypeKey

\* the message of the error scoreSolution throws for data in the current
\* state, NoError if it throws none.  The last case is the TypeError of
\* solution.scores[checkId] = score when solution.scores is undefined.
ScoreError(data) ==
  IF ~started THEN NotStartedMessage
  ELSE IF data.solutionId = Undefined THEN "solutionId is required and must be a string"
  ELSE IF data.checkId = Undefined THEN "checkId is required and must be a string"
  ELSE IF data.score = Undefined \/ ScoreOutOfRange(data.score[1]) THEN RangeMessage
  ELSE IF ~SolutionFound(data.solutionId[1]) THEN "Solution not found"
  ELSE IF ~(\E i \in 1..Len(consistencyChecks) : consistencyChecks[i].id = data.checkId[1])
  THEN "Consistency check not found"
  ELSE IF data.solutionId[1] = PrototypeKey THEN "Cannot set properties of undefined"
  ELSE NoError

\* variant: a new score is added to the score already stored
AccumulatedScore(scores, checkId, score) ==
  IF checkId \in DOMAIN scores THEN scores[checkId] + score ELSE score

\* the value the assignment stores: data.score, whatever was stored before
StoredScore(scores, checkId, score) == score

\* variant: the new score replaces the whole score map
ReplaceScores(scores, checkId, score) == [c \in {checkId} |-> score]

\* solution.scores[data.checkId] = data.score
RecordScore(scores, checkId, score) ==
  [c \in DOMAIN scores \cup {checkId} |->
     IF c = checkId THEN StoredScore(scores, checkId, score) ELSE scores[c]]

\* variant: the solution moves to the current generation
RescoredInCurrentGeneration(old, newScores) ==
  [old EXCEPT !.scores = newScores,
              !.compositeScore = CompositeScore(consistencyChecks, newScores),
              !.generation = currentGeneration]

\* the solution object after the write of the score and of compositeScore
Rescored(old, newScores) ==
  [old EXCEPT !.scores = newScores,
              !.compositeScore = CompositeScore(consistencyChecks, newScores)]

\* variant: one score is enough
AnyScoreFlag(completedScores, totalChecks) == completedScores >= 1

\* completedScores === totalChecks
FullyScoredFlag(completedScores, totalChecks) == completedScores = totalChecks

\* what a scoreSolution call that throws nothing makes of the solutions sols
\* and the best-solution reference best: the new solutions, the new
\* reference and the payload
ScoreOutcome(sols, best, data) ==
  LET sid == data.solutionId[1]
      cid == data.checkId[1]
      score == data.score[1]
      new == Rescored(sols[sid], RecordScore(sols[sid].scores, cid, score))
      newSols == [sols EXCEPT ![sid] = new]
      completedScores == Cardinality(DOMAIN new.scores)
      totalChecks == Len(consistencyChecks)
  IN  [solutions |-> newSols,
       bestSolution |->
         IF best = NULL
            \/ BetterThanBest(new.compositeScore, newSols[best].compositeScore)
         THEN sid ELSE best,
       result |-> [status |-> "scored", solutionId |-> sid, checkId |-> cid,
                   score |-> score, compositeScore |-> new.compositeScore,
                   completedScores |-> completedScores,
                   totalChecks |-> totalChecks,
                   isFullyScored |-> FullyScoredFlag(completedScores, totalChecks)]]

ScoreSolution(data) ==
  /\ call' = [op |-> "score_solution"]
  /\ IF ScoreError(data) # NoError
     THEN /\ result' = ErrorResult(ScoreError(data))
          /\ UNCHANGED <<state, nextId>>
     ELSE LET outcome == ScoreOutcome(solutions, bestSolution, data)
          IN  /\ solutions' = outcome.solutions
              /\ bestSolution' = outcome.bestSolution
              /\ result' = outcome.result
              /\ UNCHANGED <<started, problemStatement, consistencyChecks,
                             currentGeneration, maxGenerations, populationSize,
                             convergenceThreshold, generationHistory, isComplete, nextId>>

\* ------------------------------------------------------ evolveGeneration
\* variant: always the first generation
FirstGenerationSolutions ==
  IF 0 \in DOMAIN generationHistory THEN generationHistory[0] ELSE <<>>

\* generationHistory[currentGeneration] || []
CurrentGenerationSolutions ==
  IF currentGeneration \in DOMAIN generationHistory
  THEN generationHistory[currentGeneration] ELSE <<>>

\* Object.keys(s.scores).length === consistencyChecks.length
IsFullyScored(s) == Cardinality(DOMAIN s.scores) = Len(consistencyChecks)

\* the ids of the current generation's fully scored solutions, in order
FullyScored == SelectSeq(CurrentGenerationSolutions, LAMBDA id : IsFullyScored(solutions[id]))

\* s.scores[check.id] || 0
ScoreOrZero(s, c) == IF c \in DOMAIN s.scores THEN s.scores[c] ELSE 0

\* variant: the last of several equal scores wins
PickLast(best, current, c) ==
  IF ScoreOrZero(solutions[current], c) >= ScoreOrZero(solutions[best], c)
  THEN current ELSE best

\* currentScore > bestScore ? current : best
PickBest(best, current, c) ==
  IF ScoreOrZero(solutions[current], c) > ScoreOrZero(solutions[best], c)
  THEN current ELSE best

\* fullyScored.reduce(...) without an initial value, folded up to index i
RECURSIVE BestForCheck(_, _, _)
BestForCheck(ids, c, i) ==
  IF i = 1 THEN ids[1] ELSE PickBest(BestForCheck(ids, c, i - 1), ids[i], c)

\* extractRelevantContent calls checkDescription.toLowerCase(), which throws
\* a TypeError when the description is undefined
ExtractRelevantContentThrows(description) == description = Undefined

\* the excerpt relevantContent is not modelled
CrossoverRecommendations(ids) ==
  [i \in 1..Len(consistencyChecks) |->
     LET c == consistencyChecks[i].id
         b == BestForCheck(ids, c, Len(ids))
     IN  [checkId |-> c, bestSolutionId |-> b, score |-> solutions[b].scores[c]]]

\* fullyScored.reduce((sum, s) => sum + s.compositeScore, 0)
RECURSIVE SumComposite(_, _)
SumComposite(ids, i) ==
  IF i = 0 THEN Num(0)
  ELSE Add(SumComposite(ids, i - 1), solutions[ids[i]].compositeScore)

AvgScore(ids) == DivInt(SumComposite(ids, Len(ids)), Len(ids))

\* variant: the maximum over every solution of the current generation
RECURSIVE MaxCompositeOf(_, _)
MaxCompositeOf(all, i) ==
  IF i = 1 THEN solutions[all[1]].compositeScore
  ELSE Max2(MaxCompositeOf(all, i - 1), solutions[all[i]].compositeScore)

BestScoreOfGeneration(ids, i) ==
  MaxCompositeOf(CurrentGenerationSolutions, Len(CurrentGenerationSolutions))

\* Math.max(...fullyScored.map(s => s.compositeScore)) of a non-empty list
RECURSIVE BestScore(_, _)
BestScore(ids, i) ==
  IF i = 1 THEN solutions[ids[1]].compositeScore
  ELSE Max2(BestScore(ids, i - 1), solutions[ids[i]].compositeScore)

\* variant: only the full score 1 counts as convergence
ConvergedAtFullScore(bestScore) == Ge(bestScore, Num(1))

HasConverged(bestScore) == Ge(bestScore, convergenceThreshold)

\* variant: the limit is reached one generation later
MaxGenerationsExceeded == currentGeneration > maxGenerations - 1

MaxGenerationsReached == currentGeneration >= maxGenerations - 1

CompletionReason(hasConverged) == IF hasConverged THEN "convergence" ELSE "max_generations"

\* variant: the counter skips a generation
SkipGeneration(g) == g + 2

\* this.evolutionState.currentGeneration++
IncrementGeneration(g) == g + 1

\* variant: the completion branch leaves the flag as it is
NotMarked == isComplete

\* this.evolutionState.isComplete = true
MarkedComplete == TRUE

\* variant: the statistics report every solution of the generation
WholePopulation(fullyScored, all) == Len(all)

\* populationSize: fullyScored.length
ReportedPopulation(fullyScored, all) == Len(fullyScored)

\* the message of the error evolveGeneration throws in the current state,
\* NoError if it throws none.  The last case is the TypeError of
\* extractRelevantContent for a check without description.
EvolveError ==
  IF ~started THEN NotStartedMessage
  ELSE IF Len(CurrentGenerationSolutions) = 0 THEN "No solutions in current generation"
  ELSE IF Len(FullyScored) = 0 THEN "No fully scored solutions in current generation"
  ELSE IF \E i \in 1..Len(consistencyChecks) :
            ExtractRelevantContentThrows(consistencyChecks[i].description)
  THEN "Cannot read properties of undefined"
  ELSE NoError

EvolveGeneration ==
  /\ call' = [op |-> "evolve_generation"]
  /\ UNCHANGED nextId
  /\ IF EvolveError # NoError
     THEN /\ result' = ErrorResult(EvolveError)
          /\ UNCHANGED state
     ELSE LET fullyScored == FullyScored
              crossoverRecommendations == CrossoverRecommendations(fullyScored)
              avgScore == AvgScore(fullyScored)
              bestScore == BestScore(fullyScored, Len(fullyScored))
              hasConverged == HasConverged(bestScore)
          IN  IF hasConverged \/ MaxGenerationsReached
              THEN /\ isComplete' = MarkedComplete
                   /\ result' = [status |-> "complete",
                                 reason |-> CompletionReason(hasConverged),
                                 currentGeneration |-> currentGeneration,
                                 bestSolution |-> BestSnapshot(solutions, bestSolution),
                                 finalScore |-> bestScore,
                                 averageScore |-> avgScore]
                   /\ UNCHANGED <<started, problemStatement, consistencyChecks,
                                  currentGeneration, maxGenerations, populationSize,
                                  convergenceThreshold, solutions, generationHistory,
                                  bestSolution>>
              ELSE /\ currentGeneration' = IncrementGeneration(currentGeneration)
                   /\ result' = [status |-> "evolved",
                                 newGeneration |-> currentGeneration',
                                 previousGenerationStats |->
                                   [averageScore |-> avgScore, bestScore |-> bestScore,
                                    populationSize |->
                                      ReportedPopulation(fullyScored,
                                                         CurrentGenerationSolutions)],
                                 crossoverRecommendations |-> crossoverRecommendations,
                                 populationTarget |-> populationSize]
                   /\ UNCHANGED <<started, problemStatement, consistencyChecks,
                                  maxGenerations, populationSize, convergenceThreshold,
                                  solutions, generationHistory, bestSolution, isComplete>>

\* ---------------------------------------------------- getEvolutionStatus
\* Object.keys(generationHistory) lists the integer keys in ascending order
RECURSIVE SortedKeys(_)
SortedKeys(S) ==
  IF S = {} THEN <<>>
  ELSE LET m == CHOOSE x \in S : \A y \in S : x <= y
       IN  <<m>> \o SortedKeys(S \ {m})

\* variant: only the current generation is listed
GenerationSummaryOfCurrent ==
  [i \in 1..1 |->
     [generation |-> currentGeneration,
      solutionCount |-> Len(CurrentGenerationSolutions)]]

GenerationSummary ==
  LET keys == SortedKeys(DOMAIN generationHistory)
  IN  [i \in 1..Len(keys) |->
         [generation |-> keys[i], solutionCount |-> Len(generationHistory[keys[i]])]]

GetEvolutionStatus ==
  /\ call' = [op |-> "get_evolution_status"]
  /\ UNCHANGED <<state, nextId>>
  /\ result' = IF ~started
               THEN [status |-> "not_started"]
               ELSE [status |-> "active",
                     currentGeneration |-> currentGeneration,
                     maxGenerations |-> maxGenerations,
                     populationSize |-> Len(CurrentGenerationSolutions),
                     targetPopulationSize |-> populationSize,
                     fullyScored |-> Len(FullyScored),
                     bestSolution |-> BestSnapshot(solutions, bestSolution),
                     isComplete |-> isComplete,
                     generationHistory |-> GenerationSummary]

\* ------------------------------------------------------------------ spec
\* the operations called one after the other, as by the single client of
\* the stdio transport
Next ==
  \/ (\E data \in StartInputs : StartEvolution(data)) /\ UNCHANGED handlers
  \/ (\E content \in ContentInputs, parentSolutions \in ParentInputs :
        AddSolution(content, parentSolutions)) /\ UNCHANGED handlers
  \/ (\E data \in ScoreInputs : ScoreSolution(data)) /\ UNCHANGED handlers
  \/ EvolveGeneration /\ UNCHANGED handlers
  \/ GetEvolutionStatus /\ UNCHANGED handlers

Spec == Init /\ [][Next]_vars

\* ------------------------------------------------------------ properties
\* Vocabulary of the properties, stated over sets instead of the folds the
\* operations use.
CheckIdsOfSession == {consistencyChecks[i].id : i \in 1..Len(consistencyChecks)}

MembersOf(g) ==
  IF g \in DOMAIN generationHistory
  THEN {generationHistory[g][i] : i \in 1..Len(generationHistory[g])}
  ELSE {}

HasEveryScore(id) == CheckIdsOfSession \subseteq DOMAIN solutions[id].scores

FullyScoredOf(g) == {id \in MembersOf(g) : HasEveryScore(id)}

\* position of solution id in the bucket of generation g
PositionIn(g, id) == CHOOSE i \in 1..Len(generationHistory[g]) : generationHistory[g][i] = id

RECURSIVE WeightedScoreOver(_, _)
WeightedScoreOver(S, scores) ==
  IF S = {} THEN 0
  ELSE LET i == CHOOSE x \in S : TRUE
           c == consistencyChecks[i].id
       IN  (IF c \in DOMAIN scores THEN scores[c] ELSE 0) * consistencyChecks[i].weight
           + WeightedScoreOver(S \ {i}, scores)

RECURSIVE WeightOver(_)
WeightOver(S) ==
  IF S = {} THEN 0
  ELSE LET i == CHOOSE x \in S : TRUE
       IN  consistencyChecks[i].weight + WeightOver(S \ {i})

\* the fraction a equals num / den, for den # 0
EqualsFraction(a, num, den) == a.d # 0 /\ a.n * den = num * a.d

ScoreSucceeded == call.op = "score_solution" /\ result.status = "scored"
EvolveReturned(status) == call.op = "evolve_generation" /\ result.status = status

\* the preconditions of evolveGeneration: a session exists and its current
\* generation holds at least one fully scored solution
EvolvePreconditions == started /\ FullyScoredOf(currentGeneration) # {}

\* some fully scored solution of generation g reaches the threshold, i.e.
\* the maximum compositeScore among them is >= convergenceThreshold
ThresholdReachedIn(g) ==
  \E id \in FullyScoredOf(g) : Ge(solutions[id].compositeScore, convergenceThreshold)

\* C1: after a successful scoreSolution(s, c, v) the stored score of s for c
\* is v, and the compositeScore of s is the sum over all checks of the session
\* of (stored score or 0) * weight, divided by the sum of all weights; the
\* payload reports that compositeScore.
C1_CompositeIsWeightedMean ==
  ScoreSucceeded =>
    LET s == solutions[result.solutionId]
        all == 1..Len(consistencyChecks)
    IN  /\ s.scores[result.checkId] = result.score
        /\ EqualsFraction(s.compositeScore, WeightedScoreOver(all, s.scores),
                          WeightOver(all))
        /\ result.compositeScore = s.compositeScore

\* a solution scored 0 on the check of weight 1 and 1 on the check of
\* weight 2, the first of them scored last: its compositeScore is 2/3
C1_Witness ==
  /\ ScoreSucceeded
  /\ Len(consistencyChecks) = 2
  /\ consistencyChecks[1].weight = 1 /\ consistencyChecks[2].weight = 2
  /\ result.checkId = 1 /\ result.score = 0
  /\ DOMAIN solutions[result.solutionId].scores = {1, 2}
  /\ solutions[result.solutionId].scores[2] = 1
  /\ solutions[result.solutionId].compositeScore = Div(2, 3)

\* C2 (as claimed): whenever evolveGeneration passes its preconditions and a
\* fully scored solution of the current generation reaches the threshold, it
\* returns 'complete' with reason 'convergence', sets isComplete and leaves
\* currentGeneration unchanged.
C2_ConvergenceCompletes ==
  [][(call'.op = "evolve_generation" /\ EvolvePreconditions
      /\ ThresholdReachedIn(currentGeneration))
     => (/\ result'.status = "complete"
         /\ result'.reason = "convergence"
         /\ isComplete'
         /\ currentGeneration' = currentGeneration)]_vars

\* C3 (as claimed): whenever evolveGeneration passes its preconditions, no
\* fully scored solution of the current generation reaches the threshold and
\* currentGeneration >= maxGenerations - 1, it returns 'complete' with reason
\* 'max_generations', sets isComplete and leaves currentGeneration unchanged.
C3_ExhaustionCompletes ==
  [][(call'.op = "evolve_generation" /\ EvolvePreconditions
      /\ ~ThresholdReachedIn(currentGeneration)
      /\ currentGeneration >= maxGenerations - 1)
     => (/\ result'.status = "complete"
         /\ result'.reason = "max_generations"
         /\ isComplete'
         /\ currentGeneration' = currentGeneration)]_vars

\* C4: a successful start sets currentGeneration to 0; within a session it
\* changes only by an evolveGeneration that returns 'evolved', then by
\* exactly 1 with newGeneration equal to the new value, and every 'evolved'
\* step is such a change.
C4_GenerationCounter ==
  [][/\ (call'.op = "start_evolution" /\ result'.status = "started")
          => currentGeneration' = 0
     /\ (call'.op # "start_evolution" /\ currentGeneration' # currentGeneration)
          => (call'.op = "evolve_generation" /\ result'.status = "evolved")
     /\ (call'.op = "evolve_generation" /\ result'.status = "evolved")
          => (/\ currentGeneration' = currentGeneration + 1
              /\ result'.newGeneration = currentGeneration')]_vars

\* an 'evolved' step has taken the session from generation 0 to generation 1
C4_Witness == EvolveReturned("evolved") /\ currentGeneration = 1 /\ result.newGeneration = 1

\* C5 (as claimed): if bestSolution is set, it is a solution of the session
\* and no solution of the session has a strictly greater compositeScore.
C5_BestIsMaximal ==
  (started /\ bestSolution # NULL) =>
    /\ bestSolution \in DOMAIN solutions
    /\ \A id \in DOMAIN solutions :
         ~Gt(solutions[id].compositeScore, solutions[bestSolution].compositeScore)

\* C6 (as claimed): no scoreSolution call lowers bestSolution.compositeScore.
C6_BestNeverDecreases ==
  [][(call'.op = "score_solution" /\ bestSolution # NULL)
     => Ge(solutions'[bestSolution'].compositeScore,
           solutions[bestSolution].compositeScore)]_vars

\* C7: a successful scoreSolution on s turns bestSolution into s exactly when
\* no bestSolution existed or the recomputed compositeScore of s strictly
\* exceeds the compositeScore bestSolution then has; otherwise bestSolution
\* keeps referring to the same solution, in particular when s only equals
\* the score of a different bestSolution.
C7_BestUpdate ==
  [][(call'.op = "score_solution" /\ result'.status = "scored") =>
       LET sid == result'.solutionId
           becomes == bestSolution' = sid /\ bestSolution # sid
           exceeds == \/ bestSolution = NULL
                      \/ Gt(solutions'[sid].compositeScore,
                            solutions'[bestSolution].compositeScore)
       IN  /\ becomes <=> exceeds
           /\ ~becomes => bestSolution' = bestSolution
           /\ (/\ bestSolution # NULL
               /\ bestSolution # sid
               /\ solutions'[sid].compositeScore = solutions[bestSolution].compositeScore)
              => bestSolution' = bestSolution]_vars

\* a solution has just been scored up to the positive compositeScore of a
\* different bestSolution, which stays the best
C7_Witness ==
  /\ ScoreSucceeded
  /\ bestSolution # NULL
  /\ bestSolution # result.solutionId
  /\ solutions[bestSolution].compositeScore = result.compositeScore
  /\ Gt(result.compositeScore, Num(0))

\* C8: an 'evolved' result carries one recommendation per consistency check,
\* in check order, and each names a fully scored solution of the generation
\* just left.
C8_RecommendationCoverage ==
  EvolveReturned("evolved") =>
    LET recs == result.crossoverRecommendations
    IN  /\ Len(recs) = Len(consistencyChecks)
        /\ \A i \in 1..Len(recs) :
             /\ recs[i].checkId = consistencyChecks[i].id
             /\ recs[i].bestSolutionId \in FullyScoredOf(currentGeneration - 1)

\* an 'evolved' result with two recommendations that name different solutions
C8_Witness ==
  /\ EvolveReturned("evolved")
  /\ Len(result.crossoverRecommendations) = 2
  /\ result.crossoverRecommendations[1].bestSolutionId
       # result.crossoverRecommendations[2].bestSolutionId

\* C9: the recommendation for check c names the fully scored solution of the
\* generation just left whose score on c is maximal, the first added among
\* those with that score, and carries that solution's stored score on c.
C9_RecommendationIsFirstMaximal ==
  EvolveReturned("evolved") =>
    LET recs == result.crossoverRecommendations
        left == currentGeneration - 1
    IN  \A i \in 1..Len(recs) :
          LET c == recs[i].checkId
              b == recs[i].bestSolutionId
          IN  /\ b \in FullyScoredOf(left)
              /\ recs[i].score = solutions[b].scores[c]
              /\ \A id \in FullyScoredOf(left) :
                   /\ solutions[id].scores[c] <= solutions[b].scores[c]
                   /\ solutions[id].scores[c] = solutions[b].scores[c]
                        => PositionIn(left, b) <= PositionIn(left, id)

\* two fully scored solutions tie on a check with a positive score and the
\* recommendation names the one added first
C9_Witness ==
  /\ EvolveReturned("evolved")
  /\ \E i \in 1..Len(result.crossoverRecommendations) :
       LET rec == result.crossoverRecommendations[i]
       IN  /\ rec.score > 0
           /\ \E id \in FullyScoredOf(currentGeneration - 1) :
                /\ id # rec.bestSolutionId
                /\ solutions[id].scores[rec.checkId] = rec.score

\* the JS sum of the compositeScores of the solutions in S
RECURSIVE CompositeSumOver(_)
CompositeSumOver(S) ==
  IF S = {} THEN Num(0)
  ELSE LET id == CHOOSE x \in S : TRUE
       IN  Add(solutions[id].compositeScore, CompositeSumOver(S \ {id}))

\* m is the maximum compositeScore among the solutions in S
IsMaxCompositeOf(m, S) ==
  /\ \E id \in S : solutions[id].compositeScore = m
  /\ \A id \in S : Ge(m, solutions[id].compositeScore)

\* a is the mean compositeScore of the solutions in S
IsMeanCompositeOf(a, S) == a = DivInt(CompositeSumOver(S), Cardinality(S))

\* C10: the statistics, the recommendations and the convergence decision of
\* evolveGeneration range over the fully scored solutions of the current
\* generation only.
C10_OnlyFullyScoredCount ==
  /\ EvolveReturned("evolved") =>
       LET fs == FullyScoredOf(currentGeneration - 1)
           stats == result.previousGenerationStats
       IN  /\ ~ThresholdReachedIn(currentGeneration - 1)
           /\ IsMaxCompositeOf(stats.bestScore, fs)
           /\ IsMeanCompositeOf(stats.averageScore, fs)
           /\ \A i \in 1..Len(result.crossoverRecommendations) :
                result.crossoverRecommendations[i].bestSolutionId \in fs
  /\ EvolveReturned("complete") =>
       LET fs == FullyScoredOf(currentGeneration)
       IN  /\ result.reason = "convergence" <=> ThresholdReachedIn(currentGeneration)
           /\ IsMaxCompositeOf(result.finalScore, fs)
           /\ IsMeanCompositeOf(result.averageScore, fs)

\* an 'evolved' result although a solution of the generation just left that
\* lacks a score has a compositeScore >= convergenceThreshold
C10_Witness ==
  /\ EvolveReturned("evolved")
  /\ \E id \in MembersOf(currentGeneration - 1) :
       /\ ~HasEveryScore(id)
       /\ Ge(solutions[id].compositeScore, convergenceThreshold)

\* ------------------------------------------------- preconditions and errors
\* an element of consistencyChecks as the operation contract admits it: a
\* plain string, or a record with a description and no negative weight
AdmissibleCheck(check) ==
  /\ check.description # Undefined
  /\ check.weight = Undefined \/ check.weight[1] >= 0

\* the contract of start: a non-empty problem statement and a non-empty list
\* of admissible checks
StartPreconditions(data) ==
  /\ data.problemStatement # Undefined
  /\ data.problemStatement # Some("")
  /\ data.consistencyChecks # Undefined
  /\ Len(data.consistencyChecks[1]) > 0
  /\ \A i \in 1..Len(data.consistencyChecks[1]) :
       AdmissibleCheck(data.consistencyChecks[1][i])

\* the contract of addSolution: a session and a non-empty content
AddPreconditions(content) == started /\ content # Undefined /\ content # Some("")

\* the contract of scoreSolution: a session, every field present, a score in
\* [0, 1], a solution and a check of the session
ScorePreconditions(data) ==
  /\ started
  /\ data.solutionId # Undefined /\ data.checkId # Undefined /\ data.score # Undefined
  /\ 0 <= data.score[1] /\ data.score[1] <= 1
  /\ data.solutionId[1] \in DOMAIN solutions
  /\ data.checkId[1] \in CheckIdsOfSession

\* the error payload: failure flag set, status 'failed', a message
IsErrorPayload(r) == r.status = "failed" /\ r.isError = TRUE /\ r.error # ""

\* the step returns an error payload and changes nothing of the engine state
Rejected == IsErrorPayload(result') /\ state' = state

\* C11 (as claimed): every call of start, addSolution, scoreSolution or
\* evolveGeneration that violates the operation's contract returns an error
\* payload and leaves the whole engine state as it was.
C11_ViolationsAreRejected ==
  [][/\ \A data \in StartInputs :
          (StartEvolution(data) /\ ~StartPreconditions(data)) => Rejected
     /\ \A content \in ContentInputs, parentSolutions \in ParentInputs :
          (AddSolution(content, parentSolutions) /\ ~AddPreconditions(content))
          => Rejected
     /\ \A data \in ScoreInputs :
          (ScoreSolution(data) /\ ~ScorePreconditions(data)) => Rejected
     /\ (EvolveGeneration /\ ~EvolvePreconditions) => Rejected]_vars

\* C12 (as claimed): evolveGeneration fails, leaving currentGeneration and
\* isComplete alone, when the current generation holds no solution or none
\* that has a score for every check, and it succeeds when at least one
\* solution of the current generation is fully scored.
C12_EvolvePreconditions ==
  [][call'.op = "evolve_generation" =>
       /\ (MembersOf(currentGeneration) = {} \/ FullyScoredOf(currentGeneration) = {})
            => (/\ IsErrorPayload(result')
                /\ currentGeneration' = currentGeneration
                /\ isComplete' = isComplete)
       /\ EvolvePreconditions => result'.status \in {"evolved", "complete"}]_vars

\* C13: as long as no start has succeeded, addSolution, scoreSolution and
\* evolveGeneration return the error payload with the 'not started' message
\* and no session exists afterwards, while getStatus returns the shape with
\* status 'not_started' and no failure flag.
C13_NotStarted ==
  ~started =>
    /\ call.op \in {"add_solution", "score_solution", "evolve_generation"}
         => (IsErrorPayload(result) /\ result.error = NotStartedMessage)
    /\ call.op = "get_evolution_status"
         => (result.status = "not_started" /\ "isError" \notin DOMAIN result)

\* scoreSolution has been called while no session exists
C13_Witness == ~started /\ call.op = "score_solution" /\ result.status = "failed"

\* the score call has every field and a score in [0, 1]
WellFormedScore(data) ==
  /\ data.solutionId # Undefined /\ data.checkId # Undefined /\ data.score # Undefined
  /\ 0 <= data.score[1] /\ data.score[1] <= 1

NotFoundMessages == {"Solution not found", "Consistency check not found"}

\* C14 (as claimed): in a session, a well-formed scoreSolution call whose
\* solutionId is not the id of a solution of the session, or whose checkId is
\* not the id of a check of the session, returns a not-found error and
\* records no score.
C14_UnknownIdsNotFound ==
  [][\A data \in ScoreInputs :
       (/\ ScoreSolution(data)
        /\ started
        /\ WellFormedScore(data)
        /\ \/ data.solutionId[1] \notin DOMAIN solutions
           \/ data.checkId[1] \notin CheckIdsOfSession)
       => (/\ IsErrorPayload(result')
           /\ result'.error \in NotFoundMessages
           /\ solutions' = solutions)]_vars

\* no stored score lies outside [0, 1]
StoredScoresInRange ==
  \A id \in DOMAIN solutions :
    \A c \in DOMAIN solutions[id].scores :
      0 <= solutions[id].scores[c] /\ solutions[id].scores[c] <= 1

\* the score call names a solution and a check and supplies a score
HasEveryField(data) ==
  data.solutionId # Undefined /\ data.checkId # Undefined /\ data.score # Undefined

ScoreInRange(data) == 0 <= data.score[1] /\ data.score[1] <= 1

\* C15: in a session, scoreSolution throws the range error for a call that
\* has every field exactly when the score is below 0 or above 1, and throws
\* nothing for a call that names a solution and a check of the session
\* exactly when the score is in [0, 1], 0 and 1 included; an accepted score
\* is stored as supplied, and every stored score is within [0, 1].
C15_ScoreRange ==
  /\ started =>
       \A data \in ScoreInputs :
         HasEveryField(data) =>
           /\ ScoreError(data) = RangeMessage <=> ~ScoreInRange(data)
           /\ (data.solutionId[1] \in DOMAIN solutions
               /\ data.checkId[1] \in CheckIdsOfSession)
                => (ScoreError(data) = NoError <=> ScoreInRange(data))
  /\ ScoreSucceeded =>
       solutions[result.solutionId].scores[result.checkId] = result.score
  /\ StoredScoresInRange

\* a score above 1 has just been rejected while the solution holds the
\* scores 0 and 1 accepted earlier
C15_Witness ==
  /\ call.op = "score_solution"
  /\ result.status = "failed"
  /\ result.error = RangeMessage
  /\ 1 \in DOMAIN solutions
  /\ DOMAIN solutions[1].scores = {1, 2}
  /\ solutions[1].scores[1] = 0
  /\ solutions[1].scores[2] = 1

\* the ids generateId has handed out that are not ids of the current session
IdsOfEarlierSessions == (1..nextId) \ DOMAIN solutions

\* C16: a successful start, in whatever state it is issued, leaves
\* currentGeneration 0, no solutions, no generationHistory, no bestSolution
\* and isComplete false; and in every session scoreSolution throws 'not
\* found' for every id that was issued by an earlier session.
C16_StartReplacesSession ==
  /\ (call.op = "start_evolution" /\ result.status = "started")
       => (/\ currentGeneration = 0
           /\ solutions = EmptyFcn
           /\ generationHistory = EmptyFcn
           /\ bestSolution = NULL
           /\ isComplete = FALSE)
  /\ started =>
       \A data \in ScoreInputs :
         (WellFormedScore(data) /\ data.solutionId[1] \in IdsOfEarlierSessions)
         => ScoreError(data) = "Solution not found"

\* in a session started after every id had been issued, scoreSolution has
\* rejected an id as not found
C16_Witness ==
  /\ started
  /\ nextId = MaxSolutions
  /\ solutions = EmptyFcn
  /\ call.op = "score_solution"
  /\ result.status = "failed"
  /\ result.error = "Solution not found"

\* C17 (as claimed): a start whose consistencyChecks is an empty sequence
\* returns the error payload and creates or replaces no session, and every
\* session has at least one consistency check.
C17_EmptyChecksRejected ==
  [][/\ \A data \in StartInputs :
          (/\ StartEvolution(data)
           /\ data.consistencyChecks = Some(<<>>))
          => Rejected
     /\ started' => Len(consistencyChecks') >= 1]_vars

\* C18 (as claimed): a start whose consistencyChecks holds a record without
\* description or with a negative weight returns the error payload and
\* creates or replaces no session, and every check of a session has a
\* description and a non-negative weight.
C18_InadmissibleChecksRejected ==
  [][/\ \A data \in StartInputs :
          (/\ StartEvolution(data)
           /\ data.consistencyChecks # Undefined
           /\ \E i \in 1..Len(data.consistencyChecks[1]) :
                ~AdmissibleCheck(data.consistencyChecks[1][i]))
          => Rejected
     /\ started' => \A i \in 1..Len(consistencyChecks') :
                      /\ consistencyChecks'[i].description # Undefined
                      /\ consistencyChecks'[i].weight >= 0]_vars

\* the settings of the session
Configuration == <<maxGenerations, populationSize, convergenceThreshold>>

\* C19 (as claimed): a successful start gives each check the weight the
\* caller supplied when a non-negative weight is supplied, 0 included, and
\* 1.0 when the check is a plain string or a record without weight; no other
\* operation changes the checks.
C19_WeightResolution ==
  [][/\ \A data \in StartInputs :
          (StartEvolution(data) /\ result'.status = "started") =>
            \A i \in 1..Len(data.consistencyChecks[1]) :
              LET check == data.consistencyChecks[1][i]
              IN  /\ (check.kind = "object" /\ check.weight # Undefined
                      /\ check.weight[1] >= 0)
                       => consistencyChecks'[i].weight = check.weight[1]
                  /\ (check.kind = "string" \/ check.weight = Undefined)
                       => consistencyChecks'[i].weight = 1
     /\ call'.op # "start_evolution" => consistencyChecks' = consistencyChecks]_vars

\* C20 (as claimed): a successful start sets maxGenerations, populationSize
\* and convergenceThreshold to the supplied value when one is supplied, a
\* convergenceThreshold of 0 included, and to 5, 3 and 0.95 when it is
\* omitted; no other operation changes them.
C20_OptionResolution ==
  [][/\ \A data \in StartInputs :
          (StartEvolution(data) /\ result'.status = "started") =>
            /\ maxGenerations' = IF data.maxGenerations # Undefined
                                 THEN data.maxGenerations[1] ELSE 5
            /\ populationSize' = IF data.populationSize # Undefined
                                 THEN data.populationSize[1] ELSE 3
            /\ convergenceThreshold' = IF data.convergenceThreshold # Undefined
                                       THEN data.convergenceThreshold[1]
                                       ELSE Div(95, 100)
     /\ call'.op # "start_evolution" => Configuration' = Configuration]_vars

StartSucceeded == call.op = "start_evolution" /\ result.status = "started"

\* C21: a successful start with n checks gives the check made from the i-th
\* input element the id check_i, the ids are pairwise distinct, and no
\* operation other than a successful start changes the list of checks.
C21_CheckIds ==
  [][/\ (call'.op = "start_evolution" /\ result'.status = "started") =>
          /\ \A i \in 1..Len(consistencyChecks') : consistencyChecks'[i].id = i
          /\ \A i, j \in 1..Len(consistencyChecks') :
               i # j => consistencyChecks'[i].id # consistencyChecks'[j].id
          /\ \A data \in StartInputs :
               StartEvolution(data) =>
                 /\ Len(consistencyChecks') = Len(data.consistencyChecks[1])
                 /\ \A i \in 1..Len(consistencyChecks') :
                      consistencyChecks'[i].description
                        = data.consistencyChecks[1][i].description
     /\ ~(call'.op = "start_evolution" /\ result'.status = "started")
          => consistencyChecks' = consistencyChecks]_vars

\* a session has just been started with two checks of different
\* descriptions and weights
C21_Witness ==
  /\ StartSucceeded
  /\ Len(consistencyChecks) = 2
  /\ consistencyChecks[1].description # consistencyChecks[2].description
  /\ consistencyChecks[1].weight # consistencyChecks[2].weight

AddSucceeded == call.op = "add_solution" /\ result.status = "added"

\* the bucket of generation g, empty if there is none
BucketOf(history, g) == IF g \in DOMAIN history THEN history[g] ELSE <<>>

\* C22: in a session addSolution throws nothing for any non-empty content,
\* whatever the size of the generation and whether or not isComplete is set;
\* a successful call creates exactly one solution, under an id never issued
\* before, with generation currentGeneration, no scores, compositeScore 0
\* and the caller's parent list as supplied, appends the id to the bucket of
\* currentGeneration and reports the new length of that bucket.
C22_AddSolution ==
  [][/\ started =>
          \A content \in ContentInputs :
            (content # Undefined /\ content # Some("")) => AddError(content) = NoError
     /\ (call'.op = "add_solution" /\ result'.status = "added") =>
          LET id == result'.solutionId
              g == currentGeneration
          IN  /\ id \notin 1..nextId
              /\ DOMAIN solutions' = DOMAIN solutions \cup {id}
              /\ \A x \in DOMAIN solutions : solutions'[x] = solutions[x]
              /\ solutions'[id].id = id
              /\ solutions'[id].generation = g
              /\ solutions'[id].scores = EmptyFcn
              /\ solutions'[id].compositeScore = Num(0)
              /\ \A content \in ContentInputs, parentSolutions \in ParentInputs :
                   AddSolution(content, parentSolutions) =>
                     /\ solutions'[id].content = content[1]
                     /\ solutions'[id].parentSolutions
                          = IF parentSolutions = Undefined THEN <<>>
                            ELSE parentSolutions[1]
              /\ generationHistory'[g] = Append(BucketOf(generationHistory, g), id)
              /\ \A h \in DOMAIN generationHistory :
                   h # g => generationHistory'[h] = generationHistory[h]
              /\ result'.generation = g
              /\ result'.currentPopulationSize = Len(generationHistory'[g])
              /\ currentGeneration' = g /\ isComplete' = isComplete]_vars

\* a solution has been added to a completed session, beyond the target
\* population size, with a parent list that names a solution
C22_Witness ==
  /\ AddSucceeded
  /\ isComplete
  /\ result.currentPopulationSize > result.targetPopulationSize
  /\ solutions[result.solutionId].parentSolutions # <<>>

\* the positions (g, i) of generationHistory that hold the solution id
PositionsOf(id) ==
  {p \in UNION {{<<g, i>> : i \in 1..Len(generationHistory[g])} :
                  g \in DOMAIN generationHistory} :
     generationHistory[p[1]][p[2]] = id}

\* C23: every id in generationHistory[g] is the id of a solution whose
\* generation is g, and every solution id occupies exactly one position of
\* generationHistory.
C23_HistoryMatchesSolutions ==
  /\ \A g \in DOMAIN generationHistory :
       \A i \in 1..Len(generationHistory[g]) :
         /\ generationHistory[g][i] \in DOMAIN solutions
         /\ solutions[generationHistory[g][i]].generation = g
  /\ \A id \in DOMAIN solutions : Cardinality(PositionsOf(id)) = 1

\* the session has solutions in generation 0 and in generation 1
C23_Witness ==
  /\ started
  /\ MembersOf(0) # {}
  /\ MembersOf(1) # {}

\* every key of every score map is a check id of the session
ScoreKeysAreCheckIds ==
  \A id \in DOMAIN solutions : DOMAIN solutions[id].scores \subseteq CheckIdsOfSession

\* C24: every key of a score map is the id of a check of the session and
\* every value lies in [0, 1]; unless a start succeeds, a step keeps every
\* solution and every check it is scored on, so a fully scored solution
\* stays fully scored.
C24_ScoreMaps ==
  [][/\ ScoreKeysAreCheckIds'
     /\ StoredScoresInRange'
     /\ ~(call'.op = "start_evolution" /\ result'.status = "started") =>
          \A id \in DOMAIN solutions :
            /\ id \in DOMAIN solutions'
            /\ DOMAIN solutions[id].scores \subseteq DOMAIN solutions'[id].scores
            /\ HasEveryScore(id) => HasEveryScore(id)']_vars

\* a solution has been scored while another solution, scored on both checks
\* of the session, kept its scores
C24_Witness ==
  /\ ScoreSucceeded
  /\ Len(consistencyChecks) = 2
  /\ \E id \in DOMAIN solutions :
       /\ id # result.solutionId
       /\ DOMAIN solutions[id].scores = {1, 2}

\* C25: unless a start succeeds, a step removes no solution and changes no
\* solution's id, content, generation or parentSolutions, and it changes the
\* scores or the compositeScore of a solution only if it is a successful
\* scoreSolution that names this solution.
C25_SolutionFrame ==
  [][~(call'.op = "start_evolution" /\ result'.status = "started") =>
       \A id \in DOMAIN solutions :
         /\ id \in DOMAIN solutions'
         /\ solutions'[id].id = solutions[id].id
         /\ solutions'[id].content = solutions[id].content
         /\ solutions'[id].generation = solutions[id].generation
         /\ solutions'[id].parentSolutions = solutions[id].parentSolutions
         /\ (\/ solutions'[id].scores # solutions[id].scores
             \/ solutions'[id].compositeScore # solutions[id].compositeScore)
              => (/\ call'.op = "score_solution"
                  /\ result'.status = "scored"
                  /\ result'.solutionId = id)]_vars

\* a solution of generation 0 has been scored after the session moved on to
\* generation 1, next to a better solution that is left as it was
C25_Witness ==
  /\ ScoreSucceeded
  /\ currentGeneration = 1
  /\ solutions[result.solutionId].generation = 0
  /\ bestSolution # NULL
  /\ bestSolution # result.solutionId
  /\ Gt(solutions[bestSolution].compositeScore, result.compositeScore)

\* the arguments of the successful scoreSolution call that returned result
ArgumentsOf(scored) ==
  ScoreInput(Some(scored.solutionId), Some(scored.checkId), Some(scored.score))

\* C26: right after a successful scoreSolution, the same call again throws
\* nothing, leaves the solutions and bestSolution as they are and returns
\* the same compositeScore, scored count and fully-scored flag.
C26_ScoreIsIdempotent ==
  ScoreSucceeded =>
    LET data == ArgumentsOf(result)
        again == ScoreOutcome(solutions, bestSolution, data)
    IN  /\ ScoreError(data) = NoError
        /\ again.solutions = solutions
        /\ again.bestSolution = bestSolution
        /\ again.result.compositeScore = result.compositeScore
        /\ again.result.completedScores = result.completedScores
        /\ again.result.isFullyScored = result.isFullyScored

\* a score has been written that lowered the compositeScore of the solution
\* bestSolution refers to, which has a score for both checks
C26_Witness ==
  /\ ScoreSucceeded
  /\ bestSolution = result.solutionId
  /\ result.score = 0
  /\ result.completedScores = 2
  /\ \E id \in DOMAIN solutions :
       Gt(solutions[id].compositeScore, result.compositeScore)

\* C27: the payload of a successful scoreSolution on s reports as
\* completedScores the number of checks s has a score for, as totalChecks
\* the number of checks of the session, and isFullyScored exactly when s has
\* a score for every check of the session.
C27_ScoredCounts ==
  ScoreSucceeded =>
    /\ result.completedScores = Cardinality(DOMAIN solutions[result.solutionId].scores)
    /\ result.totalChecks = Cardinality(CheckIdsOfSession)
    /\ result.isFullyScored <=> HasEveryScore(result.solutionId)

\* a solution has been scored on one of the two checks of the session and
\* is reported as not fully scored
C27_Witness ==
  /\ ScoreSucceeded
  /\ result.completedScores = 1
  /\ result.totalChecks = 2
  /\ result.isFullyScored = FALSE

\* the generations that have solutions
PopulatedGenerations == {g \in DOMAIN generationHistory : MembersOf(g) # {}}

\* summary lists every generation that has solutions once, with the number
\* of its solutions
IsSummaryOfHistory(summary) ==
  /\ Len(summary) = Cardinality(PopulatedGenerations)
  /\ {summary[i].generation : i \in 1..Len(summary)} = PopulatedGenerations
  /\ \A i \in 1..Len(summary) :
       summary[i].solutionCount = Cardinality(MembersOf(summary[i].generation))

\* C28: getStatus changes nothing of the engine state; on a session its
\* payload reports currentGeneration, maxGenerations, isComplete and the
\* target population size as they are, the number of solutions of the
\* current generation, the number of those that have a score for every
\* check, the solution bestSolution refers to, and for each generation that
\* has solutions the number of its solutions.  The payload is thus a
\* function of the unchanged state, the same for consecutive calls.
C28_StatusReport ==
  [][call'.op = "get_evolution_status" =>
       /\ state' = state
       /\ nextId' = nextId
       /\ started =>
            /\ result'.status = "active"
            /\ result'.currentGeneration = currentGeneration
            /\ result'.maxGenerations = maxGenerations
            /\ result'.isComplete = isComplete
            /\ result'.targetPopulationSize = populationSize
            /\ result'.populationSize = Cardinality(MembersOf(currentGeneration))
            /\ result'.fullyScored = Cardinality(FullyScoredOf(currentGeneration))
            /\ result'.bestSolution = IF bestSolution = NULL THEN Undefined
                                      ELSE Some(solutions[bestSolution])
            /\ IsSummaryOfHistory(result'.generationHistory)]_vars

\* getStatus has been called on a completed session that has solutions in
\* two generations, one of the current generation not fully scored
C28_Witness ==
  /\ call.op = "get_evolution_status"
  /\ started
  /\ isComplete
  /\ Len(result.generationHistory) = 2
  /\ result.fullyScored < result.populationSize
  /\ result.bestSolution # Undefined

\* no operation throws because the session is complete: each throws nothing
\* whenever its contract is met
CompleteSessionAcceptsCalls ==
  isComplete =>
    /\ \A content \in ContentInputs :
         AddPreconditions(content) => AddError(content) = NoError
    /\ \A data \in ScoreInputs :
         ScorePreconditions(data) => ScoreError(data) = NoError
    /\ EvolvePreconditions => EvolveError = NoError

\* C29: isComplete is false after a successful start, turns true only in an
\* evolveGeneration that returns 'complete', and stays true until the next
\* successful start; meanwhile addSolution, scoreSolution and
\* evolveGeneration are accepted as before and getStatus reports
\* isComplete = true.
C29_CompletionFlag ==
  /\ []CompleteSessionAcceptsCalls
  /\ [][/\ (call'.op = "start_evolution" /\ result'.status = "started")
             => isComplete' = FALSE
        /\ (~isComplete /\ isComplete')
             => (call'.op = "evolve_generation" /\ result'.status = "complete")
        /\ (isComplete /\ ~(call'.op = "start_evolution" /\ result'.status = "started"))
             => isComplete'
        /\ (isComplete /\ call'.op = "get_evolution_status")
             => result'.isComplete = TRUE
        /\ (isComplete /\ call'.op \in {"add_solution", "score_solution",
                                        "evolve_generation"}
            /\ result'.status = "failed")
             => state' = state]_vars

\* in a completed session evolveGeneration has returned 'evolved' and moved
\* the session to the next generation
C29_Witness ==
  /\ isComplete
  /\ EvolveReturned("evolved")
  /\ currentGeneration = 1

\* C30: a 'complete' result of evolveGeneration reports the session-wide
\* bestSolution, whatever its generation, the maximum compositeScore of the
\* fully scored solutions of the current generation as finalScore and their
\* mean compositeScore as averageScore.
C30_CompletionReport ==
  EvolveReturned("complete") =>
    LET fs == FullyScoredOf(currentGeneration)
    IN  /\ fs # {}
        /\ result.bestSolution =
             (IF bestSolution = NULL THEN Undefined ELSE Some(solutions[bestSolution]))
        /\ IsMaxCompositeOf(result.finalScore, fs)
        /\ IsMeanCompositeOf(result.averageScore, fs)
        /\ result.currentGeneration = currentGeneration

\* the session completes in generation 1 while its best solution belongs to
\* generation 0 and scores differently from the best of generation 1
C30_Witness ==
  /\ EvolveReturned("complete")
  /\ currentGeneration = 1
  /\ result.bestSolution # Undefined
  /\ result.bestSolution[1].generation = 0
  /\ result.bestSolution[1].compositeScore # result.finalScore

\* the resolved weights of the session are non-negative with a positive sum
ValidWeights ==
  /\ \A i \in 1..Len(consistencyChecks) : consistencyChecks[i].weight >= 0
  /\ WeightOver(1..Len(consistencyChecks)) > 0

InUnitInterval(a) == Ge(a, Num(0)) /\ Ge(Num(1), a)

LoopStartInputs ==
  {data \in StartInputs :
     /\ data.problemStatement \notin {Undefined, Some("")}
     /\ data.consistencyChecks # Undefined
     /\ OrDefault(data.maxGenerations, DefaultMaxGenerations) <= MaxSolutions}

LoopStart ==
  /\ ~started
  /\ \E data \in LoopStartInputs : StartEvolution(data)
  /\ UNCHANGED handlers

LoopAdd ==
  /\ started /\ ~isComplete
  /\ nextId + (maxGenerations - currentGeneration) <= MaxSolutions
  /\ \E content \in ContentInputs, parentSolutions \in ParentInputs :
       AddSolution(content, parentSolutions)
  /\ UNCHANGED handlers

LoopScore ==
  /\ started /\ ~isComplete
  /\ \E data \in ScoreInputs : ScoreSolution(data)
  /\ UNCHANGED handlers

LoopEvolve == started /\ ~isComplete /\ EvolveGeneration /\ UNCHANGED handlers

LoopStatus == GetEvolutionStatus /\ UNCHANGED handlers

LoopNext ==
  \/ LoopStart
  \/ LoopAdd
  \/ LoopScore
  \/ LoopEvolve
  \/ LoopStatus

\* the steps the caller keeps taking: a solution for a generation that has
\* none, a score for a check a solution of the generation lacks, and
\* evolve_generation once a solution of the generation is fully scored
AddToEmptyGeneration ==
  /\ started /\ ~isComplete
  /\ currentGeneration \notin DOMAIN generationHistory
  /\ \E parentSolutions \in ParentInputs : AddSolution(Some("c"), parentSolutions)
  /\ UNCHANGED handlers

ScoreMissingCheck ==
  /\ started /\ ~isComplete
  /\ \E data \in ScoreInputs :
       /\ data.solutionId # Undefined /\ data.checkId # Undefined
       /\ data.score # Undefined /\ data.score[1] \in Scores
       /\ data.solutionId[1] \in DOMAIN solutions
       /\ solutions[data.solutionId[1]].generation = currentGeneration
       /\ data.checkId[1] \in 1..Len(consistencyChecks)
       /\ data.checkId[1] \notin DOMAIN solutions[data.solutionId[1]].scores
       /\ ScoreSolution(data)
  /\ UNCHANGED handlers

EvolveScoredGeneration ==
  /\ started /\ ~isComplete
  /\ Len(FullyScored) > 0
  /\ EvolveGeneration
  /\ UNCHANGED handlers

LoopSpec ==
  /\ Init
  /\ [][LoopNext]_vars
  /\ WF_vars(LoopStart)
  /\ WF_vars(AddToEmptyGeneration)
  /\ WF_vars(ScoreMissingCheck)
  /\ WF_vars(EvolveScoredGeneration)

\* C32 (as claimed): a session whose caller follows the generation loop
\* reaches isComplete = true, and until then evolveGeneration has returned
\* 'evolved' fewer than maxGenerations times.
C32_LoopCompletes ==
  /\ [](started /\ ~isComplete => currentGeneration <= maxGenerations - 1)
  /\ (started ~> isComplete)

\* ------------------------------------------------------ the HTTP server
\* handleMcpRequest: the body of a POST arrives in 'data' events, the 'end'
\* event runs the async callback, which calls executeTool and awaits its
\* promise; the continuation sends the response.  The callbacks of several
\* requests interleave at these events; the code between two events runs
\* without interruption.

ToolCall(name, arguments) == [name |-> name, arguments |-> arguments]

\* the tools/call requests of the clients: start with one plain check,
\* add a solution, score the first solution on check_1, evolve, status
ToolCalls ==
  {ToolCall("start_evolution",
            StartInput(Some("p"), Some(<<PlainCheck>>), Undefined, Undefined, Undefined))}
  \cup {ToolCall("add_solution", Some("c"))}
  \cup {ToolCall("score_solution", ScoreInput(Some(1), Some(1), Some(v))) :
          v \in Scores}
  \cup {ToolCall("evolve_generation", Undefined),
        ToolCall("get_evolution_status", Undefined)}

\* req.on('data', chunk => body += chunk): a request of client c arrives
ReceiveBody(c) ==
  /\ handlers[c].pc = "idle"
  /\ \E request \in ToolCalls :
       handlers' = [handlers EXCEPT ![c] =
                      [pc |-> "receiving", request |-> Some(request),
                       toolResult |-> Undefined, response |-> Undefined]]
  /\ UNCHANGED <<state, nextId, call, result>>

\* executeTool: the switch over the tool name; each case returns what the
\* engine method returns
ExecuteTool(request) ==
  \/ /\ request.name = "start_evolution"
     /\ StartEvolution(request.arguments)
  \/ /\ request.name = "add_solution"
     /\ AddSolution(request.arguments, Undefined)
  \/ /\ request.name = "score_solution"
     /\ ScoreSolution(request.arguments)
  \/ /\ request.name = "evolve_generation"
     /\ EvolveGeneration
  \/ /\ request.name = "get_evolution_status"
     /\ GetEvolutionStatus

\* req.on('end', async () => { ... const toolResult = await
\* this.executeTool(data.params): the callback runs up to the await, the
\* engine method included
EndOfBody(c) ==
  /\ handlers[c].pc = "receiving"
  /\ ExecuteTool(handlers[c].request[1])
  /\ handlers' = [handlers EXCEPT ![c] =
                    [pc |-> "awaiting", request |-> handlers[c].request,
                     toolResult |-> Some(result'), response |-> Undefined]]

\* variant: the response is built from the payload the engine returned last
LatestResult(toolResult, latest) == Some(latest)

\* const toolResult: local to the callback of one request
HeldResult(toolResult, latest) == toolResult

\* the continuation of the await: this.sendJson(res, {jsonrpc, id, result: toolResult})
SendJson(c) ==
  /\ handlers[c].pc = "awaiting"
  /\ handlers' = [handlers EXCEPT ![c] =
                    IdleHandler(HeldResult(handlers[c].toolResult, result))]
  /\ UNCHANGED <<state, nextId, call, result>>

ServerNext ==
  \/ \E c \in Clients : ReceiveBody(c)
  \/ \E c \in Clients : EndOfBody(c)
  \/ \E c \in Clients : SendJson(c)

ServerSpec == Init /\ [][ServerNext]_vars

\* the engine as the operations see and leave it
engine == <<state, nextId, call, result>>

C34_StartPayload ==
  StartSucceeded =>
    /\ result.problemStatement = problemStatement
    /\ result.consistencyChecks = consistencyChecks
    /\ result.maxGenerations = maxGenerations
    /\ result.populationSize = populationSize
    /\ "convergenceThreshold" \in DOMAIN result
    /\ result.convergenceThreshold = convergenceThreshold

\* C35: in a session whose maxGenerations is at least 1 the generation
\* counter never exceeds maxGenerations - 1, so that evolveGeneration
\* returns 'evolved' at most maxGenerations - 1 times, also in a session
\* that has completed.
C35_GenerationLimit ==
  (started /\ maxGenerations >= 1) =>
    /\ currentGeneration <= maxGenerations - 1
    /\ EvolveReturned("evolved") => result.newGeneration <= maxGenerations - 1

\* the session has reached its last generation by 'evolved' steps and
\* evolveGeneration, called there without convergence, has completed it
C35_Witness ==
  /\ started
  /\ maxGenerations >= 2
  /\ currentGeneration = maxGenerations - 1
  /\ EvolveReturned("complete")
  /\ result.reason = "max_generations"

\* C36 (as claimed): once isComplete is true, currentGeneration does not
\* change again within the session.
C36_GenerationFrozen ==
  [][(isComplete /\ ~(call'.op = "start_evolution" /\ result'.status = "started"))
       => currentGeneration' = currentGeneration]_vars

\* C36 (amended): in a completed session currentGeneration changes only by
\* an evolveGeneration that returns 'evolved', below the last generation
\* and with no fully scored solution of the generation at the threshold
\* any more; and the threshold, once reached in the generation of a completed
\* session, is lost only by a scoreSolution that lowers a compositeScore.
C36_GenerationAfterCompletion ==
  [][(isComplete /\ ~(call'.op = "start_evolution" /\ result'.status = "started")) =>
       /\ currentGeneration' # currentGeneration =>
            /\ call'.op = "evolve_generation"
            /\ result'.status = "evolved"
            /\ isComplete'
            /\ currentGeneration < maxGenerations - 1
            /\ ~ThresholdReachedIn(currentGeneration)
       /\ (ThresholdReachedIn(currentGeneration)
           /\ ~ThresholdReachedIn(currentGeneration)') =>
            /\ call'.op = "score_solution"
            /\ result'.status = "scored"
            /\ \E id \in DOMAIN solutions :
                 Gt(solutions[id].compositeScore, solutions'[id].compositeScore)]_vars

\* a session completed by convergence in generation 0 has moved on to
\* generation 1 after its converged solution was scored down
C36_Witness ==
  /\ isComplete
  /\ EvolveReturned("evolved")
  /\ result.newGeneration = 1
  /\ bestSolution # NULL
  /\ solutions[bestSolution].generation = 0
  /\ ~Ge(solutions[bestSolution].compositeScore, convergenceThreshold)

\* C37 (as claimed): a 'complete' result with reason 'convergence' reports
\* a bestSolution whose compositeScore is at least convergenceThreshold and
\* at least the reported finalScore.
C37_ConvergedBest ==
  (EvolveReturned("complete") /\ result.reason = "convergence") =>
    /\ result.bestSolution # Undefined
    /\ Ge(result.bestSolution[1].compositeScore, convergenceThreshold)
    /\ Ge(result.bestSolution[1].compositeScore, result.finalScore)

\* some solution of the session has a score, i.e. a scoreSolution call has
\* succeeded since the last start
SomeScoreStored == \E id \in DOMAIN solutions : DOMAIN solutions[id].scores # {}

\* C38: bestSolution is unset exactly when no scoreSolution call has
\* succeeded since the last start, and addSolution, evolveGeneration and
\* getEvolutionStatus leave it as it is.
C38_BestIsSetByScoring ==
  /\ [](/\ (bestSolution = NULL) <=> ~SomeScoreStored
        /\ bestSolution # NULL => bestSolution \in DOMAIN solutions)
  /\ [][/\ call'.op \in {"add_solution", "evolve_generation", "get_evolution_status"}
             => bestSolution' = bestSolution
        /\ bestSolution' # bestSolution =>
             \/ call'.op = "score_solution" /\ result'.status = "scored"
                /\ bestSolution' = result'.solutionId
             \/ call'.op = "start_evolution" /\ result'.status = "started"
                /\ bestSolution' = NULL]_vars

\* a solution was added after another one had become the best solution
C38_Witness ==
  /\ call.op = "add_solution"
  /\ result.status = "added"
  /\ bestSolution # NULL
  /\ bestSolution # result.solutionId
  /\ currentGeneration = 1

\* what evolveGeneration does not write: everything but currentGeneration
\* and isComplete
evolveFrame == <<started, problemStatement, consistencyChecks, maxGenerations,
                 populationSize, convergenceThreshold, solutions,
                 generationHistory, bestSolution, nextId>>

\* C39: evolveGeneration changes only currentGeneration, by an 'evolved'
\* result, and isComplete, by a 'complete' result; the generation it moves
\* to has no solutions, and a generation gets its solutions from
\* addSolution only.
C39_EvolveFrame ==
  [][/\ call'.op = "evolve_generation" =>
          /\ evolveFrame' = evolveFrame
          /\ result'.status = "evolved" =>
               /\ currentGeneration' = currentGeneration + 1
               /\ isComplete' = isComplete
               /\ currentGeneration' \notin DOMAIN generationHistory'
          /\ result'.status = "complete" =>
               /\ currentGeneration' = currentGeneration
               /\ isComplete'
          /\ result'.status = "failed" =>
               /\ currentGeneration' = currentGeneration
               /\ isComplete' = isComplete
     /\ (currentGeneration' \in DOMAIN generationHistory'
         /\ (currentGeneration \notin DOMAIN generationHistory
             \/ currentGeneration' # currentGeneration)) =>
          (call'.op = "add_solution" /\ result'.status = "added")]_vars

\* evolveGeneration has moved a session with two scored solutions and a
\* best solution to a generation without solutions
C39_Witness ==
  /\ EvolveReturned("evolved")
  /\ currentGeneration \notin DOMAIN generationHistory
  /\ Cardinality(DOMAIN solutions) = 2
  /\ bestSolution # NULL
  /\ ~isComplete

\* C40: in an 'evolved' result previousGenerationStats.populationSize is the
\* number of fully scored solutions of the generation just left, and
\* averageScore and bestScore are the mean and the maximum compositeScore of
\* exactly those solutions.
C40_PreviousGenerationStats ==
  EvolveReturned("evolved") =>
    LET left == result.newGeneration - 1
        stats == result.previousGenerationStats
    IN  /\ result.newGeneration = currentGeneration
        /\ stats.populationSize = Cardinality(FullyScoredOf(left))
        /\ stats.populationSize >= 1
        /\ stats.averageScore =
             DivInt(CompositeSumOver(FullyScoredOf(left)), stats.populationSize)
        /\ \E id \in FullyScoredOf(left) : solutions[id].compositeScore = stats.bestScore
        /\ \A id \in FullyScoredOf(left) : Ge(stats.bestScore, solutions[id].compositeScore)

\* the generation just left holds a solution that is not fully scored and
\* is not counted
C40_Witness ==
  /\ EvolveReturned("evolved")
  /\ result.previousGenerationStats.populationSize
       < Cardinality(MembersOf(currentGeneration - 1))
  /\ Gt(result.previousGenerationStats.bestScore, Num(0))

====
